---- MODULE Spec2Model ----
(***************************************************************************)
(* Model of internal/gateway/pf_config.go of lora-gateway-bridge: the      *)
(* channel-to-radio assignment (getGatewayConfig) and the merge of its     *)
(* result into a packet-forwarder configuration document (mergeConfig).    *)
(*                                                                         *)
(* Frequencies are in Hz, channel bandwidths in kHz, as in gw.Channel.     *)
(* Go slices are 0-based, TLA+ sequences 1-based: a Radio field of a slot  *)
(* holds the Go index, and Radios[Radio + 1] is the radio it names. The   *)
(* field IF of the slot types is written If (IF is a reserved word).      *)
(* Every quantity divided by two in the code is non-negative here, so the  *)
(* truncating division of Go and \div agree.                               *)
(***************************************************************************)
EXTENDS Integers, Sequences, FiniteSets, TLC

VARIABLES
    channels,   \* conf.Channels: the backing array the caller's slice shares
    orig,       \* history: the plan as the caller passed it
    pc,         \* position in getGatewayConfig: "call", "loop", "done"
    idx,        \* 1-based position of the range loop over conf.Channels
    gc,         \* the local gc, the value returned once pc = "done"
    err,        \* the error returned
    config,     \* the configFile handed to mergeConfig
    mergeArgs,  \* the mac and newConfig of the last mergeConfig call
    mergeRet    \* how the last mergeConfig call ended

vars == <<channels, orig, pc, idx, gc, err, config, mergeArgs, mergeRet>>
assignVars == <<channels, orig, pc, idx, gc, err>>
mergeVars == <<config, mergeArgs, mergeRet>>

----------------------------------------------------------------------------
(* Bounds *)

\* The longest channel plan a call is given.
MaxChannels == 3

\* The document holds radio_<i> and chan_multiSF_<i> entries (present,
\* malformed or absent) for i below these.
MaxDocRadios == 2
MaxDocMultiSF == 2

----------------------------------------------------------------------------
(* band.Modulation values and the radio window table *)

LoRaModulation == "LORA"
FSKModulation == "FSK"

defaultRadioBandwidth == 925000

radioBandwidthPerChannelBandwidth(channelBandwidth) ==
    CASE channelBandwidth = 500000 -> 1100000
      [] channelBandwidth = 250000 -> 1000000
      [] channelBandwidth = 125000 -> 925000
      [] OTHER -> defaultRadioBandwidth

----------------------------------------------------------------------------
(* Channel ordering: sort.Sort(channelByMinRadioCenterFrequency(...)) *)

minRadioCenterFreq(c) ==
    LET channelBandwidth == c.Bandwidth * 1000
        radioBandwidth == radioBandwidthPerChannelBandwidth(channelBandwidth)
    IN  c.Frequency - (channelBandwidth \div 2) + (radioBandwidth \div 2)

Less(s, i, j) == minRadioCenterFreq(s[i]) < minRadioCenterFreq(s[j])

Swap(s, i, j) == [s EXCEPT ![i] = s[j], ![j] = s[i]]

\* The inner loop of the insertion sort: for j := i; j > a && Less(j, j-1); j--
RECURSIVE SiftDown(_, _)
SiftDown(s, j) ==
    IF j > 1 /\ Less(s, j, j - 1)
    THEN SiftDown(Swap(s, j, j - 1), j - 1)
    ELSE s

\* sort.Sort on fewer than 7 elements is this insertion sort, in every Go
\* release (quickSort below 12 elements: a shell pass with gap 6, which does
\* nothing below 7, then insertionSort; pdqsort below 12: insertionSort).
RECURSIVE InsertionSortFrom(_, _)
InsertionSortFrom(s, i) ==
    IF i > Len(s) THEN s ELSE InsertionSortFrom(SiftDown(s, i), i + 1)

\* Mutant: the plan is processed in the order given.
SortChannels_Omitted(s) == s

SortChannels(s) == InsertionSortFrom(s, 2)

----------------------------------------------------------------------------
(* getGatewayConfig *)

ZeroLoRaSTD ==
    [Enable |-> FALSE, Radio |-> 0, If |-> 0, Bandwidth |-> 0,
     SpreadFactor |-> 0, Freq |-> 0]

ZeroFSK ==
    [Enable |-> FALSE, Radio |-> 0, If |-> 0, Bandwidth |-> 0,
     DataRate |-> 0, Freq |-> 0]

ZeroGatewayConfiguration ==
    [Radios |-> <<>>, MultiSFChannels |-> <<>>,
     LoRaSTDChannelConfig |-> ZeroLoRaSTD, FSKChannelConfig |-> ZeroFSK]

\* Mutant: only the lower edge of the channel is tested.
Fits_LowerEdgeOnly(r, c) ==
    LET channelBandwidth == c.Bandwidth * 1000
        channelMin == c.Frequency - (channelBandwidth \div 2)
        radioBandwidth == radioBandwidthPerChannelBandwidth(channelBandwidth)
    IN  channelMin >= r.Freq - (radioBandwidth \div 2)

\* The test of line 126: the channel lies in the radio's window.
Fits(r, c) ==
    LET channelBandwidth == c.Bandwidth * 1000
        channelMin == c.Frequency - (channelBandwidth \div 2)
        channelMax == c.Frequency + (channelBandwidth \div 2)
        radioBandwidth == radioBandwidthPerChannelBandwidth(channelBandwidth)
    IN  /\ channelMin >= r.Freq - (radioBandwidth \div 2)
        /\ channelMax <= r.Freq + (radioBandwidth \div 2)

\* The search loop of lines 125-131: the Go index of the first radio that
\* fits, or -1 (found = false).
RECURSIVE FindRadioFrom(_, _, _)
FindRadioFrom(radios, c, i) ==
    IF i > Len(radios) THEN -1
    ELSE IF Fits(radios[i], c) THEN i - 1
    ELSE FindRadioFrom(radios, c, i + 1)

\* Mutant: the search does not stop at the first radio that fits (no break).
FindRadio_LastFit(radios, c) ==
    LET fitting == { i \in 1..Len(radios) : Fits(radios[i], c) }
    IN  IF fitting = {} THEN -1
        ELSE (CHOOSE i \in fitting : \A j \in fitting : j <= i) - 1

FindRadio(radios, c) == FindRadioFrom(radios, c, 1)

\* Mutant: the new radio is centred on the channel.
NewRadio_OnChannel(c) == [Enable |-> TRUE, Freq |-> c.Frequency]

NewRadio(c) ==
    LET channelBandwidth == c.Bandwidth * 1000
        radioBandwidth == radioBandwidthPerChannelBandwidth(channelBandwidth)
    IN  [Enable |-> TRUE,
         Freq |-> c.Frequency - (channelBandwidth \div 2) + (radioBandwidth \div 2)]

\* Mutant: the operands of the subtraction are swapped.
IFOffset_Swapped(c, r) == r.Freq - c.Frequency

IFOffset(c, r) == c.Frequency - r.Freq

IsFSK(c) == c.Modulation = FSKModulation

\* Mutant: any LoRa channel with a spreading factor takes the single-SF slot.
IsLoRaSTD_AnySF(c) == c.Modulation = LoRaModulation /\ Len(c.SpreadingFactors) >= 1

IsLoRaSTD(c) == c.Modulation = LoRaModulation /\ Len(c.SpreadingFactors) = 1

IsLoRaMultiSF(c) == c.Modulation = LoRaModulation

\* One iteration of the loop of lines 113-186 on channel c: the new gc and
\* the error the iteration returns with ("nil": the loop goes on).
ProcessChannel(g, c) ==
    LET found == FindRadio(g.Radios, c)
        radios == IF found = -1 THEN Append(g.Radios, NewRadio(c)) ELSE g.Radios
        radio == IF found = -1 THEN Len(radios) - 1 ELSE found
        g1 == [g EXCEPT !.Radios = radios]
    IN  IF IsFSK(c) THEN
            IF g1.FSKChannelConfig.Enable
            THEN [gc |-> g1, err |-> "fsk channel already configured"]
            ELSE [gc |-> [g1 EXCEPT !.FSKChannelConfig =
                            [Enable |-> TRUE, Radio |-> radio,
                             If |-> IFOffset(c, radios[radio + 1]),
                             Bandwidth |-> c.Bandwidth,
                             DataRate |-> c.Bitrate,
                             Freq |-> c.Frequency]],
                  err |-> "nil"]
        ELSE IF IsLoRaSTD(c) THEN
            IF g1.LoRaSTDChannelConfig.Enable
            THEN [gc |-> g1, err |-> "lora std channel already configured"]
            ELSE [gc |-> [g1 EXCEPT !.LoRaSTDChannelConfig =
                            [Enable |-> TRUE, Radio |-> radio,
                             If |-> IFOffset(c, radios[radio + 1]),
                             Bandwidth |-> c.Bandwidth * 1000,
                             SpreadFactor |-> c.SpreadingFactors[1],
                             Freq |-> c.Frequency]],
                  err |-> "nil"]
        ELSE IF IsLoRaMultiSF(c) THEN
            [gc |-> [g1 EXCEPT !.MultiSFChannels =
                        Append(g1.MultiSFChannels,
                               [Enable |-> TRUE, Radio |-> radio,
                                If |-> IFOffset(c, radios[radio + 1]),
                                Freq |-> c.Frequency])],
             err |-> "nil"]
        ELSE [gc |-> g1, err |-> "invalid modulation"]

\* The loop from position i on, as one value.
RECURSIVE RunLoop(_, _, _)
RunLoop(g, chs, i) ==
    IF i > Len(chs) THEN [gc |-> g, err |-> "nil"]
    ELSE LET r == ProcessChannel(g, chs[i])
         IN  IF r.err # "nil" THEN r ELSE RunLoop(r.gc, chs, i + 1)

\* The whole call on a plan, as one value.
getGatewayConfig(chs) == RunLoop(ZeroGatewayConfiguration, SortChannels(chs), 1)

\* The steps of a call.
Sort ==
    /\ pc = "call"
    /\ channels' = SortChannels(channels)
    /\ pc' = "loop"
    /\ idx' = 1
    /\ UNCHANGED <<orig, gc, err, mergeVars>>

ProcessNext ==
    /\ pc = "loop"
    /\ idx <= Len(channels)
    /\ LET r == ProcessChannel(gc, channels[idx])
       IN  /\ gc' = r.gc
           /\ err' = r.err
           /\ pc' = IF r.err # "nil" THEN "done" ELSE "loop"
           /\ idx' = idx + 1
    /\ UNCHANGED <<channels, orig, mergeVars>>

Return ==
    /\ pc = "loop"
    /\ idx > Len(channels)
    /\ pc' = "done"
    /\ UNCHANGED <<channels, orig, idx, gc, err, mergeVars>>

----------------------------------------------------------------------------
(* mergeConfig *)

(* A configFile: SX1301Conf and GatewayConf are Go maps from key to JSON   *)
(* value. A map is a function whose domain is the set of keys present; a   *)
(* value is [t |-> "map", v |-> the map] for a JSON object and             *)
(* [t |-> "number", v |-> n] for a value that is not one. GatewayConf is nil*)
(* when the document has no "gateway_conf" (json.Unmarshal leaves it       *)
(* unset); reading a nil map yields no entry, writing to it panics.        *)

Put(m, k, x) == [y \in DOMAIN m \cup {k} |-> IF y = k THEN x ELSE m[y]]

\* config.SX1301Conf[key].(map[string]interface{}): ok
IsMapping(sx, key) == key \in DOMAIN sx /\ sx[key].t = "map"

radioKey(i) == "radio_" \o ToString(i)

multiSFKey(i) == "chan_multiSF_" \o ToString(i)

\* lorawan.EUI64.String(): the bytes in lower-case hexadecimal
HexDigit(n) ==
    CASE n = 0 -> "0" [] n = 1 -> "1" [] n = 2 -> "2" [] n = 3 -> "3"
      [] n = 4 -> "4" [] n = 5 -> "5" [] n = 6 -> "6" [] n = 7 -> "7"
      [] n = 8 -> "8" [] n = 9 -> "9" [] n = 10 -> "a" [] n = 11 -> "b"
      [] n = 12 -> "c" [] n = 13 -> "d" [] n = 14 -> "e" [] n = 15 -> "f"

RECURSIVE HexFrom(_, _)
HexFrom(bytes, i) ==
    IF i > Len(bytes) THEN ""
    ELSE HexDigit(bytes[i] \div 16) \o HexDigit(bytes[i] % 16) \o HexFrom(bytes, i + 1)

MacString(mac) == HexFrom(mac, 1)

RetNil == [kind |-> "nil", key |-> ""]
RetError(key) == [kind |-> "error", key |-> key]
RetPanic == [kind |-> "panic", key |-> ""]
RetNone == [kind |-> "none", key |-> ""]

\* Mutant: the radio's entry is replaced by the two fields.
UpdateRadio_Replace(radio, r) == [enable |-> r.Enable, freq |-> r.Freq]

\* Lines 222-223
UpdateRadio(radio, r) == Put(Put(radio, "enable", r.Enable), "freq", r.Freq)

\* Lines 233-235
UpdateMultiSF(channel, c) ==
    Put(Put(Put(channel, "enable", c.Enable), "radio", c.Radio), "if", c.If)

\* Lines 243-247
UpdateLoRaSTD(channel, c) ==
    Put(Put(Put(Put(Put(channel, "enable", c.Enable), "radio", c.Radio),
        "if", c.If), "bandwidth", c.Bandwidth), "spread_factor", c.SpreadFactor)

\* Lines 254-258
UpdateFSK(channel, c) ==
    Put(Put(Put(Put(Put(channel, "enable", c.Enable), "radio", c.Radio),
        "if", c.If), "bandwidth", c.Bandwidth), "datarate", c.DataRate)

SetMapping(sx, key, m) == [sx EXCEPT ![key] = [t |-> "map", v |-> m]]

\* Lines 260-263: the write of gateway_ID and the return
MergeGateway(cfg, mac) ==
    IF cfg.GatewayConf.nil
    THEN [config |-> cfg, ret |-> RetPanic]
    ELSE [config |-> [cfg EXCEPT !.GatewayConf.m =
                        Put(cfg.GatewayConf.m, "gateway_ID", MacString(mac))],
          ret |-> RetNil]

\* Lines 249-258, then the rest
MergeFSK(cfg, mac, nc) ==
    IF ~IsMapping(cfg.SX1301Conf, "chan_FSK")
    THEN [config |-> cfg, ret |-> RetError("chan_FSK")]
    ELSE MergeGateway(
            [cfg EXCEPT !.SX1301Conf = SetMapping(@, "chan_FSK",
                UpdateFSK(cfg.SX1301Conf["chan_FSK"].v, nc.FSKChannelConfig))],
            mac)

\* Lines 238-247, then the rest
MergeLoRaSTD(cfg, mac, nc) ==
    IF ~IsMapping(cfg.SX1301Conf, "chan_Lora_std")
    THEN [config |-> cfg, ret |-> RetError("chan_Lora_std")]
    ELSE MergeFSK(
            [cfg EXCEPT !.SX1301Conf = SetMapping(@, "chan_Lora_std",
                UpdateLoRaSTD(cfg.SX1301Conf["chan_Lora_std"].v,
                              nc.LoRaSTDChannelConfig))],
            mac, nc)

\* Lines 226-236 from Go index i on, then the rest
RECURSIVE MergeMultiSF(_, _, _, _)
MergeMultiSF(cfg, mac, nc, i) ==
    IF i >= Len(nc.MultiSFChannels) THEN MergeLoRaSTD(cfg, mac, nc)
    ELSE IF ~IsMapping(cfg.SX1301Conf, multiSFKey(i))
    THEN [config |-> cfg, ret |-> RetError(multiSFKey(i))]
    ELSE MergeMultiSF(
            [cfg EXCEPT !.SX1301Conf = SetMapping(@, multiSFKey(i),
                UpdateMultiSF(cfg.SX1301Conf[multiSFKey(i)].v,
                              nc.MultiSFChannels[i + 1]))],
            mac, nc, i + 1)

\* Lines 215-224 from Go index i on, then the rest
RECURSIVE MergeRadios(_, _, _, _)
MergeRadios(cfg, mac, nc, i) ==
    IF i >= Len(nc.Radios) THEN MergeMultiSF(cfg, mac, nc, 0)
    ELSE IF ~IsMapping(cfg.SX1301Conf, radioKey(i))
    THEN [config |-> cfg, ret |-> RetError(radioKey(i))]
    ELSE MergeRadios(
            [cfg EXCEPT !.SX1301Conf = SetMapping(@, radioKey(i),
                UpdateRadio(cfg.SX1301Conf[radioKey(i)].v, nc.Radios[i + 1]))],
            mac, nc, i + 1)

mergeConfig(mac, cfg, nc) == MergeRadios(cfg, mac, nc, 0)

----------------------------------------------------------------------------
(* Inputs *)

Channel(f, bw, mod, sfs, br) ==
    [Frequency |-> f, Bandwidth |-> bw, Modulation |-> mod,
     SpreadingFactors |-> sfs, Bitrate |-> br]

AllSF == <<7, 8, 9, 10, 11, 12>>

\* The modulation kinds: multi-SF LoRa, single-SF LoRa, FSK.
ValidKinds ==
    { [mod |-> LoRaModulation, sfs |-> AllSF, br |-> 0],
      [mod |-> LoRaModulation, sfs |-> <<7>>, br |-> 0],
      [mod |-> FSKModulation, sfs |-> <<>>, br |-> 50000] }

\* ... and LoRa without spreading factors, and a modulation that is neither.
AllKinds ==
    ValidKinds \cup
    { [mod |-> LoRaModulation, sfs |-> <<>>, br |-> 0],
      [mod |-> "", sfs |-> <<>>, br |-> 0] }

(* Frequency and bandwidth pairs chosen for the radio geometry:            *)
(*   868.1 MHz/125 kHz, 868.125 MHz/250 kHz and 868.1375 MHz/200 kHz (a    *)
(*   bandwidth that is not in the table, narrower than its window) have    *)
(*   the same minimum radio centre frequency, 868.5 MHz;                   *)
(*   868.9 MHz/500 kHz does not fit the radio at 868.5 MHz and opens one at*)
(*   869.2 MHz; 868.85 MHz/125 kHz, sorted after it, fits both;            *)
(*   868.5 MHz/1000 kHz has a bandwidth that is not in the table and is    *)
(*   wider than its window.                                                *)
GeomPoints ==
    { <<868100000, 125>>, <<868125000, 250>>, <<868137500, 200>>,
      <<868850000, 125>>, <<868900000, 500>>, <<868500000, 1000>> }

GeomChannels ==
    { Channel(p[1], p[2], k.mod, k.sfs, k.br) : p \in GeomPoints, k \in ValidKinds }

ClassChannels ==
    { Channel(f, 125, k.mod, k.sfs, k.br) :
        f \in {868100000, 868300000, 868500000}, k \in AllKinds }

Plans(S) == UNION { [1..n -> S] : n \in 0..MaxChannels }

PermSeqs(s) == { [i \in 1..Len(s) |-> s[p[i]]] : p \in Permutations(1..Len(s)) }

ExamplePlan ==
    << Channel(868100000, 125, LoRaModulation, AllSF, 0),
       Channel(868300000, 125, LoRaModulation, <<7>>, 0),
       Channel(868500000, 125, LoRaModulation, AllSF, 0),
       Channel(868800000, 250, FSKModulation, <<>>, 50000) >>

\* The configurations merged: of no channel; of the example plan (one
\* radio, every slot kind); of two and of three multi-SF channels, each on
\* a radio of its own.
MergePlans ==
    { <<>>,
      ExamplePlan,
      << Channel(868100000, 125, LoRaModulation, AllSF, 0),
         Channel(869525000, 125, LoRaModulation, AllSF, 0) >>,
      << Channel(867100000, 125, LoRaModulation, AllSF, 0),
         Channel(868100000, 125, LoRaModulation, AllSF, 0),
         Channel(869525000, 125, LoRaModulation, AllSF, 0) >> }

NewConfigs == { getGatewayConfig(p).gc : p \in MergePlans }

MACs == { <<1, 2, 3, 4, 5, 6, 7, 8>>, <<170, 85, 90, 0, 0, 0, 255, 16>> }

Mapping(m) == [t |-> "map", v |-> m]
Number(n) == [t |-> "number", v |-> n]

StaleRadio == Mapping([enable |-> FALSE, freq |-> 867500000, type |-> "SX1257"])
StaleMultiSF == Mapping([enable |-> TRUE, radio |-> 1, if |-> -400000])
StaleLoRaSTD ==
    Mapping([enable |-> TRUE, radio |-> 1, if |-> -200000, bandwidth |-> 250000,
             spread_factor |-> 7])
StaleFSK ==
    Mapping([enable |-> TRUE, radio |-> 1, if |-> 300000, bandwidth |-> 125000,
             datarate |-> 50000, freq_deviation |-> 25])

\* Keys mergeConfig has no business with.
OtherSX1301 ==
    [lorawan_public |-> Number(1),
     tx_lut_0 |-> Mapping([pa_gain |-> 0, rf_power |-> -6])]

DocKeys ==
    { radioKey(i) : i \in 0..(MaxDocRadios - 1) } \cup
    { multiSFKey(i) : i \in 0..(MaxDocMultiSF - 1) } \cup
    { "chan_Lora_std", "chan_FSK" }

StaleNode(key) ==
    IF key \in { radioKey(i) : i \in 0..(MaxDocRadios - 1) } THEN StaleRadio
    ELSE IF key = "chan_Lora_std" THEN StaleLoRaSTD
    ELSE IF key = "chan_FSK" THEN StaleFSK
    ELSE StaleMultiSF

\* An SX1301_conf in which the keys of `absent` are missing and the keys of
\* `malformed` hold a number.
SX1301With(absent, malformed) ==
    [k \in (DocKeys \ absent) \cup DOMAIN OtherSX1301 |->
        IF k \in DOMAIN OtherSX1301 THEN OtherSX1301[k]
        ELSE IF k \in malformed THEN Number(0)
        ELSE StaleNode(k)]

GatewayConfs ==
    { [nil |-> TRUE, m |-> <<>>],
      [nil |-> FALSE,
       m |-> [gateway_ID |-> "AA555A0000000000", server_address |-> "localhost"]] }

\* Every document with at most one key absent and at most one malformed.
Docs ==
    { [SX1301Conf |-> SX1301With(a, b), GatewayConf |-> g] :
        a \in {{}} \cup {{k} : k \in DocKeys},
        b \in {{}} \cup {{k} : k \in DocKeys},
        g \in GatewayConfs }

WellFormedDoc ==
    [SX1301Conf |-> SX1301With({}, {}),
     GatewayConf |-> [nil |-> FALSE,
                      m |-> [gateway_ID |-> "AA555A0000000000",
                             server_address |-> "localhost"]]]

\* A call of mergeConfig on the document; a panic ends the process.
Merge ==
    /\ mergeRet.kind # "panic"
    /\ \E mac \in MACs, nc \in NewConfigs :
          LET r == mergeConfig(mac, config, nc)
          IN  /\ config' = r.config
              /\ mergeRet' = r.ret
              /\ mergeArgs' = [mac |-> mac, newConfig |-> nc]
    /\ UNCHANGED assignVars

----------------------------------------------------------------------------
(* Specifications *)

NoMergeYet ==
    /\ config = WellFormedDoc
    /\ mergeArgs = [mac |-> <<>>, newConfig |-> ZeroGatewayConfiguration]
    /\ mergeRet = RetNone

InitCall(plan) ==
    /\ channels = plan
    /\ orig = plan
    /\ pc = "call"
    /\ idx = 0
    /\ gc = ZeroGatewayConfiguration
    /\ err = "nil"

NextAssign == Sort \/ ProcessNext \/ Return

\* Calls on every plan of channels of the radio geometry set.
Init == (\E plan \in Plans(GeomChannels) : InitCall(plan)) /\ NoMergeYet
Spec == Init /\ [][NextAssign]_vars

\* Calls on every plan of channels of every modulation kind.
InitClass == (\E plan \in Plans(ClassChannels) : InitCall(plan)) /\ NoMergeYet
SpecClass == InitClass /\ [][NextAssign]_vars

\* Calls on the example plan in every order.
InitExample == (\E plan \in PermSeqs(ExamplePlan) : InitCall(plan)) /\ NoMergeYet
SpecExample == InitExample /\ [][NextAssign]_vars

\* Merges, one after another, into every document of Docs.
InitMerge ==
    /\ channels = <<>> /\ orig = <<>> /\ pc = "done" /\ idx = 1
    /\ gc = ZeroGatewayConfiguration /\ err = "nil"
    /\ config \in Docs
    /\ mergeArgs = [mac |-> <<>>, newConfig |-> ZeroGatewayConfiguration]
    /\ mergeRet = RetNone
SpecMerge == InitMerge /\ [][Merge]_vars

----------------------------------------------------------------------------
(* Vocabulary of the properties *)

Done == pc = "done"
Succeeded == pc = "done" /\ err = "nil"

DuplicateSlotErrors ==
    { "fsk channel already configured", "lora std channel already configured" }

\* The slot kinds as the specification defines them.
SingleSF(c) == c.Modulation = LoRaModulation /\ Len(c.SpreadingFactors) = 1
MultiSF(c) == c.Modulation = LoRaModulation /\ Len(c.SpreadingFactors) > 1
FSK(c) == c.Modulation = FSKModulation
NoSF(c) == c.Modulation = LoRaModulation /\ Len(c.SpreadingFactors) = 0
OtherModulation(c) == c.Modulation \notin {LoRaModulation, FSKModulation}

Positions(chs, P(_)) == { i \in 1..Len(chs) : P(chs[i]) }
Count(chs, P(_)) == Cardinality(Positions(chs, P))

SetMin(S) == CHOOSE x \in S : \A y \in S : x <= y

ChannelHz(c) == c.Bandwidth * 1000
WindowHz(c) == radioBandwidthPerChannelBandwidth(ChannelHz(c))

\* The channel's interval lies in the window, of the width looked up for
\* the channel, around the radio's centre.
Covers(r, c) ==
    /\ c.Frequency - (ChannelHz(c) \div 2) >= r.Freq - (WindowHz(c) \div 2)
    /\ c.Frequency + (ChannelHz(c) \div 2) <= r.Freq + (WindowHz(c) \div 2)

\* The channel is no wider than the window looked up for it.
NoWiderThanWindow(c) == ChannelHz(c) <= WindowHz(c)

\* The slots of configuration g, each with the channel of the sorted plan
\* chs it was made for: the i-th multi-SF slot with the i-th multi-SF
\* channel, the single-SF and FSK slots with the channels of their kind.
SlotPairs(g, chs) ==
    { [slot |-> g.MultiSFChannels[i], channel |-> SelectSeq(chs, MultiSF)[i]] :
        i \in 1..Len(g.MultiSFChannels) }
    \cup { [slot |-> [Enable |-> g.LoRaSTDChannelConfig.Enable,
                      Radio |-> g.LoRaSTDChannelConfig.Radio,
                      If |-> g.LoRaSTDChannelConfig.If,
                      Freq |-> g.LoRaSTDChannelConfig.Freq],
            channel |-> chs[i]] : i \in Positions(chs, SingleSF) }
    \cup { [slot |-> [Enable |-> g.FSKChannelConfig.Enable,
                      Radio |-> g.FSKChannelConfig.Radio,
                      If |-> g.FSKChannelConfig.If,
                      Freq |-> g.FSKChannelConfig.Freq],
            channel |-> chs[i]] : i \in Positions(chs, FSK) }

ValidRadio(g, radio) == radio \in 0..(Len(g.Radios) - 1)

----------------------------------------------------------------------------
(* C1 *)

AllCovered(P(_)) ==
    Succeeded =>
        /\ Len(gc.MultiSFChannels) = Count(channels, MultiSF)
        /\ \A p \in SlotPairs(gc, channels) :
              P(p.channel) =>
                 /\ p.slot.Enable
                 /\ ValidRadio(gc, p.slot.Radio)
                 /\ Covers(gc.Radios[p.slot.Radio + 1], p.channel)

AnyChannel(c) == TRUE

\* C1 as stated: in every configuration returned without error, every
\* channel's interval [frequency - bandwidth/2, frequency + bandwidth/2]
\* lies in the window of the radio recorded in its slot, whatever the
\* channel's bandwidth.
C1_EveryChannelCovered == AllCovered(AnyChannel)

\* C1 as amended: the same of every channel whose bandwidth does not exceed
\* the radio window looked up for it.
C1_ChannelsWithinWindowCovered == AllCovered(NoWiderThanWindow)

\* A returned configuration of two radios in which a channel of a bandwidth
\* that is not in the table joined the radio another channel opened.
C1_Witness ==
    /\ Succeeded
    /\ Len(gc.Radios) = 2
    /\ \E p, q \in SlotPairs(gc, channels) :
          /\ p.channel.Bandwidth = 200
          /\ q.channel.Bandwidth = 125
          /\ p.slot.Radio = q.slot.Radio
          /\ q.channel.Frequency = 868100000
          /\ p.slot.Freq # q.slot.Freq

----------------------------------------------------------------------------
(* C2 *)

\* C2 as stated: a call on a plan with a LoRa channel without spreading
\* factors, or with a channel whose modulation is neither LoRa nor FSK,
\* ends with the invalid-modulation error; and at no point of a call are
\* there more multi-SF slots than LoRa channels with more than one
\* spreading factor.
C2_InvalidModulationRejected ==
    /\ Len(gc.MultiSFChannels) <= Count(channels, MultiSF)
    /\ Done /\ (Count(orig, NoSF) > 0 \/ Count(orig, OtherModulation) > 0)
          => err = "invalid modulation"

----------------------------------------------------------------------------
(* C3 *)

\* The position, in the sorted plan chs, of the first channel that is a
\* second FSK or a second single-SF LoRa channel; Len(chs) + 1 if none.
SecondOfKind(chs) ==
    LET S == { i \in 1..Len(chs) :
                 \/ FSK(chs[i]) /\ \E j \in 1..(i - 1) : FSK(chs[j])
                 \/ SingleSF(chs[i]) /\ \E j \in 1..(i - 1) : SingleSF(chs[j]) }
    IN  IF S = {} THEN Len(chs) + 1 ELSE SetMin(S)

\* The position of the first channel that is neither LoRa nor FSK.
FirstOtherModulation(chs) ==
    LET S == Positions(chs, OtherModulation)
    IN  IF S = {} THEN Len(chs) + 1 ELSE SetMin(S)

HasDuplicate(chs) == Count(chs, SingleSF) >= 2 \/ Count(chs, FSK) >= 2

OneOfEach(chs) ==
    /\ Count(chs, SingleSF) = 1
    /\ Count(chs, FSK) = 1
    /\ Count(chs, MultiSF) = Len(chs) - 2

OneOfEachSucceeds ==
    Done /\ OneOfEach(orig) =>
        /\ err = "nil"
        /\ gc.LoRaSTDChannelConfig.Enable
        /\ gc.FSKChannelConfig.Enable
        /\ Len(gc.MultiSFChannels) = Count(orig, MultiSF)
        /\ \A i \in 1..Len(gc.MultiSFChannels) : gc.MultiSFChannels[i].Enable

\* C3 as stated: a plan with two or more single-SF LoRa channels, or two or
\* more FSK channels, ends with the duplicate-slot error; a plan of one
\* single-SF LoRa channel, one FSK channel and multi-SF LoRa channels
\* succeeds with both single slots enabled and a multi-SF slot per multi-SF
\* channel.
C3_DuplicateAlwaysDuplicateError ==
    /\ Done /\ HasDuplicate(orig) => err \in DuplicateSlotErrors
    /\ OneOfEachSucceeds

\* C3 as amended: such a plan always fails; with the duplicate-slot error
\* when, in sorted order, the second channel of a kind comes before every
\* channel whose modulation is neither LoRa nor FSK, and with the
\* invalid-modulation error otherwise. The second half is as stated.
C3_DuplicateFailsFirstErrorWins ==
    /\ Done /\ HasDuplicate(orig) =>
          IF SecondOfKind(channels) < FirstOtherModulation(channels)
          THEN err \in DuplicateSlotErrors
          ELSE err = "invalid modulation"
    /\ OneOfEachSucceeds

\* A call that ended with the duplicate-slot error on a plan of three
\* channels whose last, in sorted order, has an unknown modulation.
C3_Witness ==
    /\ Done
    /\ Len(channels) = 3
    /\ FSK(channels[1]) /\ FSK(channels[2]) /\ OtherModulation(channels[3])
    /\ channels # orig
    /\ err = "fsk channel already configured"

\* A successful call on a plan of one channel of each kind.
C3_WitnessOneOfEach ==
    Done /\ OneOfEach(orig) /\ Len(orig) = 3 /\ err = "nil"

----------------------------------------------------------------------------
(* C4 *)

SlotsExact ==
    Succeeded =>
        /\ Len(gc.MultiSFChannels) = Count(channels, MultiSF)
        /\ \A p \in SlotPairs(gc, channels) :
              /\ p.slot.Enable
              /\ ValidRadio(gc, p.slot.Radio)
              /\ p.slot.If = p.channel.Frequency - gc.Radios[p.slot.Radio + 1].Freq

RadiosKept ==
    /\ Len(gc.Radios) <= Len(gc'.Radios)
    /\ \A i \in 1..Len(gc.Radios) : gc'.Radios[i] = gc.Radios[i]

\* C4: in every configuration returned without error each enabled slot names
\* a radio of the returned list, and its IF offset is its channel's
\* frequency minus that radio's centre frequency; no step of a call changes
\* the centre frequency of a radio that exists.
C4_IFOffsetExact == [][RadiosKept /\ SlotsExact']_vars

\* A returned configuration of two radios with a slot below its radio's
\* centre and a slot above it.
C4_Witness ==
    /\ Succeeded
    /\ Len(gc.Radios) = 2
    /\ \E p, q \in SlotPairs(gc, channels) :
          /\ p.slot.If < 0 /\ p.channel.Frequency < gc.Radios[p.slot.Radio + 1].Freq
          /\ q.slot.If > 0 /\ q.slot.Radio = 1

----------------------------------------------------------------------------
(* C7 *)

----------------------------------------------------------------------------
(* C8 *)

\* The call that ended in this state and a call on plan p fail both or
\* succeed both, then with the same radios and single-SF and FSK slots.
SameOutcome(p) ==
    LET r == getGatewayConfig(p)
    IN  /\ (r.err = "nil") <=> (err = "nil")
        /\ err = "nil" =>
              /\ r.gc.Radios = gc.Radios
              /\ r.gc.LoRaSTDChannelConfig = gc.LoRaSTDChannelConfig
              /\ r.gc.FSKChannelConfig = gc.FSKChannelConfig

AllNoWiderThanWindow(chs) == \A i \in 1..Len(chs) : NoWiderThanWindow(chs[i])

\* C8 as stated: a call on any permutation of a plan has the outcome of the
\* call on the plan, whatever the plan.
C8_OrderIrrelevant == Done => \A p \in PermSeqs(orig) : SameOutcome(p)

\* C8 as amended: the same of every plan none of whose channels is wider
\* than the radio window looked up for it.
C8_OrderIrrelevantWithinWindow ==
    Done /\ AllNoWiderThanWindow(orig) => \A p \in PermSeqs(orig) : SameOutcome(p)

\* A successful call on a plan of three channels, two of them with the same
\* minimum radio centre frequency and given unsorted, the third on another
\* radio.
C8_Witness ==
    /\ Succeeded
    /\ AllNoWiderThanWindow(orig)
    /\ Len(orig) = 3
    /\ orig # channels
    /\ minRadioCenterFreq(orig[1]) = minRadioCenterFreq(orig[3])
    /\ orig[1] # orig[3]
    /\ gc.FSKChannelConfig.Enable
    /\ Len(gc.Radios) = 2

----------------------------------------------------------------------------
(* C9 *)

\* C9: on the example plan, in any order, the call succeeds with one radio,
\* two multi-SF slots, the single-SF slot and the FSK slot, every slot on
\* radio 0 with an IF offset of its channel's frequency less the radio's
\* centre frequency.
C9_Example ==
    Done =>
        /\ err = "nil"
        /\ Len(gc.Radios) = 1
        /\ Len(gc.MultiSFChannels) = 2
        /\ gc.LoRaSTDChannelConfig.Enable
        /\ gc.FSKChannelConfig.Enable
        /\ \A i \in 1..2 : gc.MultiSFChannels[i].Enable /\ gc.MultiSFChannels[i].Radio = 0
        /\ gc.LoRaSTDChannelConfig.Radio = 0
        /\ gc.FSKChannelConfig.Radio = 0
        /\ { gc.MultiSFChannels[i].If : i \in 1..2 } =
              { 868100000 - gc.Radios[1].Freq, 868500000 - gc.Radios[1].Freq }
        /\ gc.LoRaSTDChannelConfig.If = 868300000 - gc.Radios[1].Freq
        /\ gc.FSKChannelConfig.If = 868800000 - gc.Radios[1].Freq

\* The call on the example plan given with the FSK channel first has
\* returned.
C9_Witness ==
    /\ Done
    /\ Len(orig) = 4
    /\ orig[1].Modulation = FSKModulation
    /\ gc.FSKChannelConfig.If = 300000

----------------------------------------------------------------------------
(* C10 *)

SortedAscending(chs) ==
    \A i, j \in 1..Len(chs) :
        i < j => minRadioCenterFreq(chs[i]) <= minRadioCenterFreq(chs[j])

\* The greedy policy on its own: the centres of the radios opened for the
\* channels of chs from position i on, given the centres opened so far.
RECURSIVE GreedyCentres(_, _, _)
GreedyCentres(chs, i, centres) ==
    IF i > Len(chs) THEN centres
    ELSE IF \E k \in 1..Len(centres) : Covers([Freq |-> centres[k]], chs[i])
         THEN GreedyCentres(chs, i + 1, centres)
         ELSE GreedyCentres(chs, i + 1,
                  Append(centres, chs[i].Frequency - (ChannelHz(chs[i]) \div 2)
                                     + (WindowHz(chs[i]) \div 2)))

\* The plan in ascending order of minimum radio centre frequency, by rank:
\* a channel comes after those of a lower key and those of its key given
\* before it.
Ascending(plan) ==
    LET rank(i) == Cardinality({ j \in 1..Len(plan) :
                      \/ minRadioCenterFreq(plan[j]) < minRadioCenterFreq(plan[i])
                      \/ /\ minRadioCenterFreq(plan[j]) = minRadioCenterFreq(plan[i])
                         /\ j < i }) + 1
    IN  [k \in 1..Len(plan) |-> plan[CHOOSE i \in 1..Len(plan) : rank(i) = k]]

\* The radio of the slot that a step which ended in h made for channel c.
SlotRadio(h, c) ==
    IF FSK(c) THEN h.FSKChannelConfig.Radio
    ELSE IF SingleSF(c) THEN h.LoRaSTDChannelConfig.Radio
    ELSE h.MultiSFChannels[Len(h.MultiSFChannels)].Radio

FirstFitStep ==
    pc = "loop" /\ idx' = idx + 1 =>
        LET c == channels[idx]
            fitting == { i \in 1..Len(gc.Radios) : Covers(gc.Radios[i], c) }
        IN  IF fitting = {}
            THEN /\ Len(gc'.Radios) = Len(gc.Radios) + 1
                 /\ pc' # "done" => SlotRadio(gc', c) = Len(gc.Radios)
            ELSE /\ gc'.Radios = gc.Radios
                 /\ pc' # "done" => SlotRadio(gc', c) = SetMin(fitting) - 1

InOrder == pc \in {"loop", "done"} => SortedAscending(channels)

GreedyCount ==
    Succeeded =>
        \A sorted \in {Ascending(orig)} :
            Len(gc.Radios) = Len(GreedyCentres(sorted, 1, <<>>))

\* C10: the loop runs over the channels in ascending order of minimum radio
\* centre frequency; each channel goes to the lowest-index radio, of those
\* existing when it is processed, whose window contains it, and a radio is
\* appended only when none does; a successful call returns as many radios
\* as the greedy first-fit policy opens on the sorted plan.
C10_FirstFit == [][FirstFitStep /\ InOrder' /\ GreedyCount']_vars

\* A returned configuration of two radios in which a channel that both
\* radios' windows contain is on radio 0.
C10_Witness ==
    /\ Succeeded
    /\ Len(gc.Radios) = 2
    /\ \E p \in SlotPairs(gc, channels) :
          /\ Covers(gc.Radios[1], p.channel)
          /\ Covers(gc.Radios[2], p.channel)
          /\ p.channel = channels[3]
          /\ p.slot.Radio = 0

----------------------------------------------------------------------------
(* C5 *)

\* The keys of SX1301_conf, each with the field of it, that a merge of
\* configuration nc may write.
Writable(nc) ==
    { <<radioKey(i), f>> : i \in 0..(Len(nc.Radios) - 1), f \in {"enable", "freq"} }
    \cup { <<multiSFKey(i), f>> :
             i \in 0..(Len(nc.MultiSFChannels) - 1), f \in {"enable", "radio", "if"} }
    \cup { <<"chan_Lora_std", f>> :
             f \in {"enable", "radio", "if", "bandwidth", "spread_factor"} }
    \cup { <<"chan_FSK", f>> :
             f \in {"enable", "radio", "if", "bandwidth", "datarate"} }

\* Map m1 is map m0 but for the fields that satisfy W.
SameBut(m0, m1, W(_)) ==
    /\ DOMAIN m0 \subseteq DOMAIN m1
    /\ \A f \in DOMAIN m1 : W(f) \/ (f \in DOMAIN m0 /\ m1[f] = m0[f])

MergeFrame ==
    LET nc == mergeArgs'.newConfig
        sx0 == config.SX1301Conf
        sx1 == config'.SX1301Conf
    IN  /\ DOMAIN sx1 = DOMAIN sx0
        /\ \A k \in DOMAIN sx0 :
              /\ sx1[k].t = sx0[k].t
              /\ IF sx0[k].t = "map"
                 THEN SameBut(sx0[k].v, sx1[k].v, LAMBDA f : <<k, f>> \in Writable(nc))
                 ELSE sx1[k] = sx0[k]
        /\ config'.GatewayConf.nil = config.GatewayConf.nil
        /\ SameBut(config.GatewayConf.m, config'.GatewayConf.m,
                   LAMBDA f : f = "gateway_ID")

\* C5: a merge changes, in the document, only radio_<i>.{enable,freq} and
\* chan_multiSF_<i>.{enable,radio,if} for i below the new counts,
\* chan_Lora_std.{enable,radio,if,bandwidth,spread_factor},
\* chan_FSK.{enable,radio,if,bandwidth,datarate} and gateway_ID; every other
\* key keeps its value through every merge of a sequence.
C5_MergeFrame == [][MergeFrame]_vars

\* A merge of a configuration of one radio has returned nil on a document
\* whose radio_1 still holds what an earlier merge of two radios wrote, and
\* whose other keys are as in the first document.
C5_Witness ==
    /\ mergeRet = RetNil
    /\ Len(mergeArgs.newConfig.Radios) = 1
    /\ IsMapping(config.SX1301Conf, "radio_1")
    /\ config.SX1301Conf["radio_1"].v["freq"] = 869925000
    /\ config.SX1301Conf["radio_1"].v["enable"]
    /\ config.SX1301Conf["radio_0"].v["type"] = "SX1257"
    /\ config.SX1301Conf["chan_FSK"].v["freq_deviation"] = 25
    /\ config.SX1301Conf["tx_lut_0"] = OtherSX1301["tx_lut_0"]
    /\ config.GatewayConf.m["server_address"] = "localhost"
    /\ config.GatewayConf.m["gateway_ID"] = "0102030405060708"

----------------------------------------------------------------------------
(* C6 *)

\* The first mapping node, in the order of the steps of a merge of nc, that
\* is absent from the document or is not a mapping; "" if there is none.
\* (No merge adds or removes a key or changes what kind of value a key
\* holds, so the document after the merge answers this as the one before.)
FirstBadPath(cfg, nc) ==
    LET badRadios == { i \in 0..(Len(nc.Radios) - 1) :
                         ~IsMapping(cfg.SX1301Conf, radioKey(i)) }
        badMultiSF == { i \in 0..(Len(nc.MultiSFChannels) - 1) :
                          ~IsMapping(cfg.SX1301Conf, multiSFKey(i)) }
    IN  IF badRadios # {} THEN radioKey(SetMin(badRadios))
        ELSE IF badMultiSF # {} THEN multiSFKey(SetMin(badMultiSF))
        ELSE IF ~IsMapping(cfg.SX1301Conf, "chan_Lora_std") THEN "chan_Lora_std"
        ELSE IF ~IsMapping(cfg.SX1301Conf, "chan_FSK") THEN "chan_FSK"
        ELSE IF cfg.GatewayConf.nil THEN "gateway_conf"
        ELSE ""

\* C6 as stated: a merge into a document in which a mapping node that a
\* step expects is absent or is not a mapping returns the error that names
\* the first such node, and ends in no other way.
C6_BadPathReturnsError ==
    mergeRet.kind # "none" /\ FirstBadPath(config, mergeArgs.newConfig) # ""
        => mergeRet = RetError(FirstBadPath(config, mergeArgs.newConfig))

====
